---- MODULE Spec2Model ----
(***************************************************************************)
(* Model of the 3D motor viewer (MotorViewer) and of the selection state   *)
(* of App, for the two variants of the dashboard kept in the repository:   *)
(*   "sew" - src/sew_predictive.jsx                                        *)
(*   "cut" - the cutaway variant embedded in src/README.md (lines 224 ff.) *)
(*                                                                         *)
(* Units.  JavaScript numbers are modelled in exact fixed-point integers:  *)
(*   time            milliseconds            (0.016 s  = 16)               *)
(*   group rotation  1/100000 revolution     (2*PI rad = 100000)           *)
(*   camera angles   1/10000 radian          (0.005 rad per pixel = 50)    *)
(*   camera radius   1/10000 scene unit      (0.0004 per wheel unit = 4)   *)
(***************************************************************************)
EXTENDS Integers, Sequences, FiniteSets, TLC

VARIABLES
  variant,       \* which of the two source variants runs
  phase,         \* "idle" | "mounted" | "nomount" | "torndown" (effect life cycle)
  mounts,        \* number of times the mount effect ran
  selectedComp,  \* App state: selected component id or Null
  highlightRef,  \* MotorViewer highlightRef.current / hlRef.current
  lastClick,     \* history: id of the card clicked last (Null before any click)
  prevSel,       \* history: selectedComp before the last click
  timeRef,       \* timeRef.current, ms
  animRef,       \* animRef.current: handle of the last frame request (0 = null)
  rafPending,    \* host: handles of frame requests not yet run or cancelled
  rafNext,       \* host: next frame-request handle
  rot,           \* rotation.z of every group of the motor assembly
  material,      \* material pointer of every object of the motor assembly
  origMats,      \* the origMats Map: mesh index -> material recorded at build
  emissive,      \* emissiveIntensity writes: material -> [t, src] of the last pulse
  sph,           \* camera spherical coordinates [radius, phi, theta]
  isDrag,        \* drag flag
  prev,          \* last pointer position [x, y]
  listeners,     \* registered event listeners: name -> count
  disposed,      \* number of renderer.dispose() calls on the current renderer
  view,          \* renderer size and camera aspect [w, h, aspect]
  arc,           \* cut arc and the solid arc computed from it, degrees
  pc,            \* partialCylinder: its arguments and the buffers it returned
  fins,          \* angles at which the cooling fins of the cutaway housing were placed
  series,        \* the chart series vibData, tempData, currentData (SpecApp)
  activeTab,     \* App state: the chart tab shown
  time           \* App state: seconds counted by the clock interval

vars == <<variant, phase, mounts, selectedComp, highlightRef, lastClick, prevSel,
          timeRef, animRef, rafPending, rafNext, rot, material, origMats,
          emissive, sph, isDrag, prev, listeners, disposed, view, arc, pc, fins, series, activeTab, time>>

Null == "null"

Variants == {"sew", "cut"}

(***************************************************************************)
(* Bounds of the model.                                                    *)
(***************************************************************************)
MaxFrames == 3       \* invocations of the frame callback in Spec
MaxRunFrames == 64   \* invocations of the frame callback in SpecRun
MaxMounts == 2       \* times the mount effect runs (mount, teardown, re-mount)
MaxCards == 2        \* component cards that get clicked (a prefix of COMPONENTS)
MaxTheta == 10000    \* azimuth excursion from the initial azimuth
MaxTicks == 2        \* ticks of the one-second clock of App in SpecApp

(***************************************************************************)
(* Component registry: the ids of COMPONENTS, in source order.             *)
(***************************************************************************)
COMPONENTS(v) ==
  IF v = "sew"
  THEN <<"bearing_drive", "bearing_fan", "stator_winding", "rotor_bars",
         "shaft", "junction_box", "housing", "fan_guard">>
  ELSE <<"shaft", "bearing_drive", "rotor_bars", "stator_winding",
         "bearing_fan", "housing", "fan_guard", "junction_box">>

Ids(v) == {COMPONENTS(v)[i] : i \in 1..Len(COMPONENTS(v))}

\* The cards the model clicks.
ClickIds(v) ==
  {COMPONENTS(v)[i] : i \in 1..(IF MaxCards < Len(COMPONENTS(v))
                                THEN MaxCards ELSE Len(COMPONENTS(v)))}

(***************************************************************************)
(* Scene graph.  A material or a group is named by its source variable;  *)
(* a material or group built inline in a loop is named by its kind and its *)
(* index, N(kind, n), so that distinct objects have distinct names.        *)
(***************************************************************************)
M(name) == name
G(name) == name
N(name, n) == name \o ToString(n)

Obj(kind, n, compId, parent, mat, geom) ==
  [kind |-> kind, n |-> n, compId |-> compId, parent |-> parent, mat |-> mat,
   geom |-> geom, isMesh |-> (geom # "Line"), isLabel |-> FALSE]

\* Variant of Drive: the fan-side parts carry an id that is not in the registry.
Drive_Unlisted(idx) == IF idx = 0 THEN "bearing_drive" ELSE "bearing_nde"

\* Variant of Drive: the parts of both bearings carry the drive-side id.
Drive_OneSide(idx) == "bearing_drive"

Drive(idx) == IF idx = 0 THEN "bearing_drive" ELSE "bearing_fan"

\* src/sew_predictive.jsx: objects of `motor` in traversal order.
SceneSew ==
       <<Obj("housingMesh", 0, "housing", G("statorG"), M("housing"), "Cylinder")>>
  \o [i \in 1..28 |-> Obj("fin", i - 1, "housing", G("statorG"), M("housing"), "Box")]
  \o [i \in 1..2 |-> Obj("ec", i - 1, Drive(i - 1), G("statorG"), M("endcap"), "Cylinder")]
  \o [i \in 1..36 |-> Obj("coil", i - 1, "stator_winding", G("statorG"), M("coilMat"), "Torus")]
  \o [i \in 1..2 |-> Obj("br", i - 1, Drive(i - 1), G("statorG"), M("barMat"), "Torus")]
  \o [i \in 1..2 |-> Obj("gr", i - 1, "fan_guard", G("statorG"), M("guardMat"), "Torus")]
  \o <<Obj("guardSide", 0, "fan_guard", G("statorG"), M("guardMat"), "Cylinder"),
       Obj("jbox", 0, "junction_box", G("statorG"), M("boxMat"), "Box"),
       Obj("jlid", 0, "junction_box", G("statorG"), M("boxMat"), "Box"),
       Obj("foot", 0, "housing", G("statorG"), M("footMat"), "Box"),
       Obj("rotorMesh", 0, "rotor_bars", G("rotorG"), M("rotorMat"), "Cylinder")>>
  \o [i \in 1..32 |-> Obj("bar", i - 1, "rotor_bars", G("rotorG"), M("barMat"), "Cylinder")]
  \o [i \in 1..2 |-> Obj("ring", i - 1, "rotor_bars", G("rotorG"), M("ringMat"), "Torus")]
  \o <<Obj("shaftMesh", 0, "shaft", G("rotorG"), M("shaftMat"), "Cylinder"),
       Obj("keyMesh", 0, "shaft", G("rotorG"), N("keyMat", 1), "Box"),
       Obj("hub", 0, "fan_guard", G("fanG"), M("fanBlkMat"), "Cylinder")>>
  \o [i \in 1..6 |-> Obj("blade", i - 1, "fan_guard", G("fanG"), M("fanBlkMat"), "Box")]

\* src/README.md (cutaway variant): objects of `motor` in traversal order.
FIN_COUNT == 18
SLOT_N == 24
END_LOOPS == 12
lamN == 34

EndMat(idx) == IF idx = 0 THEN M("mEndSolid") ELSE M("mEndTrans")

BearingCut(idx) ==
       <<Obj("outer", idx, Drive(idx), G("statorG"), N("outerMat", idx + 1), "Torus"),
         Obj("inner", idx, Drive(idx), G("statorG"), N("innerMat", idx + 1), "Torus")>>
  \o [b \in 1..9 |-> Obj("ball", b - 1, Drive(idx), N("ballG", idx + 1),
                         N("ballMat", 9 * idx + b), "Sphere")]

SceneCut ==
       <<Obj("housingMesh", 0, "housing", G("statorG"), M("mHousing"), "Partial")>>
  \o [i \in 1..4 |-> Obj("edge", i - 1, Null, G("statorG"), M("edgeMat"), "Line")]
  \o [i \in 1..FIN_COUNT |-> Obj("fin", i - 1, "housing", G("statorG"), N("finMat", i), "Box")]
  \o <<Obj("ecDrive", 0, "bearing_drive", G("statorG"), M("mEndSolid"), "Cylinder"),
       Obj("ecFan", 0, "bearing_fan", G("statorG"), M("mEndTrans"), "Cylinder")>>
  \o [i \in 1..2 |-> Obj("boss", i - 1, Drive(i - 1), G("statorG"), EndMat(i - 1), "Cylinder")]
  \o [b \in 1..4 |-> Obj("bolt", b - 1, "bearing_drive", G("statorG"), M("mBolt"), "Cylinder")]
  \o [k \in 1..(2 * SLOT_N) |->
        IF k % 2 = 1
        THEN Obj("liner", (k - 1) \div 2, "stator_winding", G("statorG"), M("mSlot"), "Box")
        ELSE Obj("bundle", (k - 1) \div 2, "stator_winding", G("statorG"), M("mCoil"), "Cylinder")]
  \o [k \in 1..(4 * END_LOOPS) |->
        IF k % 2 = 1
        THEN Obj("insul", (k - 1) \div 2, "stator_winding", G("statorG"), M("mInsul"), "Torus")
        ELSE Obj("copper", (k - 1) \div 2, "stator_winding", G("statorG"), M("mCoil"), "Torus")]
  \o BearingCut(0)
  \o BearingCut(1)
  \o [i \in 1..2 |-> Obj("gr", i - 1, "fan_guard", G("statorG"), M("mGuard"), "Torus")]
  \o <<Obj("gSide", 0, "fan_guard", G("statorG"), M("mGuard"), "Cylinder")>>
  \o [s \in 1..10 |-> Obj("sp", s - 1, "fan_guard", N("spG", s), M("mGuard"), "Cylinder")]
  \o <<Obj("jb", 0, "junction_box", G("statorG"), M("mBox"), "Box"),
       Obj("jl", 0, "junction_box", G("statorG"), M("mBox"), "Box"),
       Obj("foot", 0, "housing", G("statorG"), M("mFoot"), "Box")>>
  \o [i \in 1..4 |-> Obj("footHole", i - 1, "housing", G("statorG"), N("holeMat", i), "Cylinder")]
  \o [i \in 1..lamN |-> Obj("lam", i - 1, "rotor_bars", G("rotorG"), M("mLam"), "Cylinder")]
  \o [i \in 1..28 |-> Obj("bar", i - 1, "rotor_bars", G("rotorG"), M("mBar"), "Cylinder")]
  \o [i \in 1..2 |-> Obj("ring", i - 1, "rotor_bars", G("rotorG"), M("mRing"), "Torus")]
  \o <<Obj("shCore", 0, "shaft", G("rotorG"), M("mShaft"), "Cylinder"),
       Obj("shDr", 0, "shaft", G("rotorG"), M("mShaft"), "Cylinder"),
       Obj("shFn", 0, "shaft", G("rotorG"), M("mShaft"), "Cylinder"),
       Obj("shl", 0, "shaft", G("rotorG"), M("mShaft"), "Cylinder"),
       Obj("kw", 0, "shaft", G("rotorG"), N("kwMat", 1), "Box"),
       Obj("hub", 0, "fan_guard", G("fanG"), M("mFan"), "Cylinder")>>
  \o [i \in 1..7 |-> Obj("blade", i - 1, "fan_guard", G("fanG"), M("mFan"), "Box")]

Scene(v) == IF v = "sew" THEN SceneSew ELSE SceneCut

MeshIdx(v) == {k \in 1..Len(Scene(v)) : Scene(v)[k].isMesh}

\* Groups of the motor assembly and the group each one was added to.
Groups(v) ==
  {G("motor"), G("statorG"), G("rotorG"), G("fanG")}
    \cup (IF v = "cut"
          THEN {N("ballG", i) : i \in 1..2} \cup {N("spG", s) : s \in 1..10}
          ELSE {})

GroupParent(g) ==
  CASE g = G("motor") -> G("scene")
    [] g = G("fanG") -> G("rotorG")
    [] g \in {N("ballG", i) : i \in 1..2} \cup {N("spG", s) : s \in 1..10} -> G("statorG")
    [] OTHER -> G("motor")

HighlightMat(v) == IF v = "sew" THEN M("highlightMat") ELSE M("mHLIGHT")
CoilMat(v) == IF v = "sew" THEN M("coilMat") ELSE M("mCoil")


\* The groups whose orbit is animated: found by statorG.traverse in the cutaway
\* variant (a group of nine children whose first child is a sphere mesh).
ChildObjs(v, g) == SelectSeq(Scene(v), LAMBDA o : o.parent = g)
ChildCount(v, g) == Len(ChildObjs(v, g)) + Cardinality({h \in Groups(v) : GroupParent(h) = g})

\* Variant of BbGroups: the groups of one child (the guard spokes) are taken.
BbGroups_Spokes(v) ==
  IF v = "cut"
  THEN {g \in Groups(v) : GroupParent(g) = G("statorG") /\ ChildCount(v, g) = 1}
  ELSE {}

BbGroups(v) ==
  IF v = "cut"
  THEN {g \in Groups(v) :
          /\ g = G("statorG") \/ GroupParent(g) = G("statorG")
          /\ ChildCount(v, g) = 9
          /\ Len(ChildObjs(v, g)) > 0
          /\ ChildObjs(v, g)[1].isMesh
          /\ ChildObjs(v, g)[1].geom = "Sphere"}
  ELSE {}

\* Tables computed once at scene build (bbGroups is filled before the first frame).
bbGroups == [v \in Variants |-> BbGroups(v)]
meshIdx == [v \in Variants |-> MeshIdx(v)]

\* The groups that objects of the assembly were added to (<group>.add(<object>)).
parents == [v \in Variants |-> {Scene(v)[k].parent : k \in 1..Len(Scene(v))}]

(***************************************************************************)
(* Numeric constants of the frame loop and of the orbit controls.          *)
(***************************************************************************)
\* Variant of TimeStep: a step of 0.020 s.
TimeStep_Twenty == 4 * 5

TimeStep == 16         \* timeRef.current += 0.016
Rpm == 1740
TwoPi == 100000        \* Math.PI * 2, in rotation units
AngV == (Rpm * TwoPi) \div (60 * 1000)   \* (1740 / 60) * Math.PI * 2, per ms
BallNum == 44          \* bearing-ball orbit ratio 0.44
BallDen == 100

Pi == 31416            \* Math.PI, in camera-angle units
PhiMin == 1500         \* 0.15
PhiMax == Pi - PhiMin  \* Math.PI - 0.15
DragGain == 50         \* 0.005 rad per pixel
WheelGain == 4         \* 0.0004 per wheel unit

RadiusMin(v) == IF v = "sew" THEN 2000 ELSE 2200
RadiusMax(v) == IF v = "sew" THEN 10000 ELSE 9000

\* new THREE.Spherical().setFromVector3(camera.position):
\*   sew (0.38, 0.16, 0.34): radius 0.53442, phi = acos(y/r) 1.26674, theta = atan2(x,z) 0.84090
\*   cut (0.34, 0.18, 0.36): radius 0.52688, phi 1.22214, theta 0.75683
SphInit(v) ==
  IF v = "sew"
  THEN [radius |-> 5344, phi |-> 12667, theta |-> 8409]
  ELSE [radius |-> 5269, phi |-> 12221, theta |-> 7568]

NoCamera == [radius |-> 0, phi |-> 0, theta |-> 0]

\* Inputs of the pointer, wheel and touch handlers.
Pointers == {[x |-> 0, y |-> 0], [x |-> 200, y |-> 400]}
WheelDeltas == {0 - 3000, 1000, 3000}
TouchCounts == {1, 2}
TouchesLeft == {0, 1}   \* e.touches.length at a touchend: a lone contact, or one of two, was lifted

Min(a, b) == IF a < b THEN a ELSE b
Max(a, b) == IF a > b THEN a ELSE b
Abs(a) == IF a < 0 THEN 0 - a ELSE a

ListenerNames ==
  {"window.resize", "window.mouseup", "canvas.mousedown", "canvas.mousemove",
   "canvas.wheel", "canvas.touchstart", "canvas.touchmove", "canvas.touchend"}
CanvasListeners == {n \in ListenerNames : n \notin {"window.resize", "window.mouseup"}}

(***************************************************************************)
(* Selection (App).                                                        *)
(***************************************************************************)
\* Variant of Toggle: any click clears an existing selection.
Toggle_ClearFirst(sel, id) == IF sel # Null THEN Null ELSE id

\* onClick={() => setSelectedComp(selectedComp === c.id ? null : c.id)}
Toggle(sel, id) == IF sel = id THEN Null ELSE id

(***************************************************************************)
(* The frame callback `animate`.                                           *)
(***************************************************************************)
\* Variant of RotAfter: the rotor is placed from the time before the advance.
RotAfter_StaleTime(v, r0, t) ==
  [g \in Groups(v) |->
     CASE g = G("rotorG") -> (t - 16) * AngV
       [] g = G("fanG") -> IF v = "cut" THEN t * AngV ELSE r0[g]
       [] g \in bbGroups[v] -> (t * AngV * BallNum) \div BallDen
       [] OTHER -> r0[g]]

\* Variant of RotAfter: the stator group is turned with the rotor.
RotAfter_WholeStator(v, r0, t) ==
  [g \in Groups(v) |->
     CASE g \in {G("rotorG"), G("statorG")} -> t * AngV
       [] g = G("fanG") -> IF v = "cut" THEN t * AngV ELSE r0[g]
       [] OTHER -> r0[g]]

\* rotation.z of the groups after a frame at time t.
RotAfter(v, r0, t) ==
  [g \in Groups(v) |->
     CASE g = G("rotorG") -> t * AngV
       [] g = G("fanG") -> IF v = "cut" THEN t * AngV ELSE r0[g]
       [] g \in bbGroups[v] -> (t * AngV * BallNum) \div BallDen
       [] OTHER -> r0[g]]

\* Variant of HighlightOf: a mesh that no longer matches keeps its material.
HighlightOf_NoRestore(v, mats, om, hid, k) ==
  IF Scene(v)[k].isMesh /\ hid # Null /\ Scene(v)[k].compId = hid
  THEN HighlightMat(v)
  ELSE mats[k]

\* Variant of HighlightOf: a matching mesh that is already highlighted is swapped back.
HighlightOf_Blink(v, mats, om, hid, k) ==
  IF Scene(v)[k].isMesh /\ ~Scene(v)[k].isLabel
  THEN IF hid # Null /\ Scene(v)[k].compId = hid /\ mats[k] # HighlightMat(v)
       THEN HighlightMat(v)
       ELSE IF k \in DOMAIN om THEN om[k] ELSE mats[k]
  ELSE mats[k]

\* The highlight traversal: material of object k after the pass.
HighlightOf(v, mats, om, hid, k) ==
  IF Scene(v)[k].isMesh /\ ~Scene(v)[k].isLabel
  THEN IF hid # Null /\ Scene(v)[k].compId = hid
       THEN HighlightMat(v)
       ELSE IF k \in DOMAIN om THEN om[k] ELSE mats[k]
  ELSE mats[k]

HighlightPass(v, mats, om, hid) ==
  [k \in 1..Len(mats) |-> HighlightOf(v, mats, om, hid, k)]

\* The coil pulse: the meshes whose recorded material gets its emissiveIntensity set.
PulseCond(v, om, k) ==
  /\ Scene(v)[k].isMesh
  /\ Scene(v)[k].compId = "stator_winding"
  /\ k \in DOMAIN om
  /\ (v = "cut" => om[k] = CoilMat(v))

PulseTargets(v, om) == {k \in 1..Len(Scene(v)) : PulseCond(v, om, k)}

SetMax(S) == CHOOSE x \in S : \A y \in S : y <= x

\* Variant of Pulse: the write goes to the material the mesh carries after the
\* highlight pass (c.material) instead of the one recorded for it.
Pulse_Current(v, em, om, t) ==
  [m \in DOMAIN em |->
     LET ks == {k \in PulseTargets(v, om) : material'[k] = m}
     IN IF ks = {} THEN em[m] ELSE [t |-> t, src |-> SetMax(ks)]]

\* The traversal writes in order, so the last mesh sharing a material decides its value.
Pulse(v, em, om, t) ==
  [m \in DOMAIN em |->
     LET ks == {k \in PulseTargets(v, om) : om[k] = m}
     IN IF ks = {} THEN em[m] ELSE [t |-> t, src |-> SetMax(ks)]]

EmissiveMats(v) ==
  {HighlightMat(v)} \cup {Scene(v)[k].mat : k \in {j \in meshIdx[v] : Scene(v)[j].compId = "stator_winding"}}

Animate(mats0, om, em0, rot0, pend0) ==
  /\ animRef' = rafNext
  /\ rafPending' = pend0 \cup {rafNext}
  /\ rafNext' = rafNext + 1
  /\ timeRef' = timeRef + TimeStep
  /\ rot' = RotAfter(variant, rot0, timeRef + TimeStep)
  /\ material' = HighlightPass(variant, mats0, om, highlightRef)
  /\ emissive' = Pulse(variant, em0, om, timeRef + TimeStep)

(***************************************************************************)
(* Renderer size and camera aspect (mount and onResize).                   *)
(***************************************************************************)
\* w / h as JavaScript computes it: a finite quotient (kept in 1/1000),
\* Infinity for a positive width over a zero height, NaN for 0 / 0.
Ratio(w, h) ==
  IF h # 0 THEN [kind |-> "finite", milli |-> (w * 1000) \div h]
  ELSE IF w # 0 THEN [kind |-> "Infinity", milli |-> 0]
  ELSE [kind |-> "NaN", milli |-> 0]

\* camera.aspect = w / h; renderer.setSize(w, h)
Sized(w, h) == [w |-> w, h |-> h, aspect |-> Ratio(w, h)]

NoView == [w |-> 0, h |-> 0, aspect |-> [kind |-> "none", milli |-> 0]]

\* container.clientWidth / clientHeight read at mount and at a window resize.
MountSizes == {[w |-> 800, h |-> 600]}
ResizeSizes == {[w |-> 400, h |-> 300], [w |-> 800, h |-> 0],
                [w |-> 0, h |-> 300], [w |-> 0, h |-> 0]}

(***************************************************************************)
(* Cutaway housing: the cut arc, the solid arc and partialCylinder.        *)
(* Angles are whole degrees (Math.PI * 2 = 360); Math.sin and Math.cos are *)
(* tabulated in 1/1000; lengths passed to partialCylinder are whole scene  *)
(* units and the positions it returns are in 1/1000 scene unit.            *)
(***************************************************************************)
MaxSegs == 6         \* radSegs ranges over 1..MaxSegs

FullTurn == 360
CUT_START == 0 - 50
CUT_END == 140

\* Variant of SolidArc: the end is not carried one turn past the cut start.
SolidArc_NoTurn(cutStart, cutEnd) == [start |-> cutEnd, end |-> cutStart]

\* SOLID_START = CUT_END; SOLID_END = CUT_START + Math.PI * 2
SolidArc(cutStart, cutEnd) == [start |-> cutEnd, end |-> cutStart + FullTurn]

Scale == 1000

\* Math.sin for 0..90 degrees, in 1/1000.
SinTable == <<
    0, 17, 35, 52, 70, 87, 105, 122, 139, 156, 174, 191, 208,
    225, 242, 259, 276, 292, 309, 326, 342, 358, 375, 391, 407, 423,
    438, 454, 469, 485, 500, 515, 530, 545, 559, 574, 588, 602, 616,
    629, 643, 656, 669, 682, 695, 707, 719, 731, 743, 755, 766, 777,
    788, 799, 809, 819, 829, 839, 848, 857, 866, 875, 883, 891, 899,
    906, 914, 921, 927, 934, 940, 946, 951, 956, 961, 966, 970, 974,
    978, 982, 985, 988, 990, 993, 995, 996, 998, 999, 999, 1000, 1000
>>

Sin(deg) ==
  LET d == deg % 360
  IN CASE d <= 90 -> SinTable[d + 1]
       [] d <= 180 -> SinTable[180 - d + 1]
       [] d <= 270 -> 0 - SinTable[d - 180 + 1]
       [] OTHER -> 0 - SinTable[360 - d + 1]

Cos(deg) == Sin(deg + 90)

\* Variant of Normal: the normal leans along the axis.
Normal_Axial(cx, cy) == <<cx, cy, Scale>>

\* norms.push(cx, cy, 0)
Normal(cx, cy) == <<cx, cy, 0>>

\* const a = arcStart + (arcEnd - arcStart) * (i / radSegs), to the whole degree.
SampleAngle(arcStart, arcEnd, radSegs, i) ==
  arcStart + ((arcEnd - arcStart) * i) \div radSegs

\* First loop: for (i = 0; i <= radSegs; i++) push the bottom and the top vertex.
RECURSIVE VertexLoop(_, _, _, _)
VertexLoop(args, i, verts, norms) ==
  IF i <= args.radSegs
  THEN LET a == SampleAngle(args.arcStart, args.arcEnd, args.radSegs, i)
           cx == Sin(a)
           cy == Cos(a)
           halfH == (args.height * Scale) \div 2
       IN VertexLoop(args, i + 1,
                     verts \o <<<<cx * args.radius, cy * args.radius, 0 - halfH>>,
                                <<cx * args.radius, cy * args.radius, halfH>>>>,
                     norms \o <<Normal(cx, cy), Normal(cx, cy)>>)
  ELSE [verts |-> verts, norms |-> norms]

\* Variant of QuadIndices: the quad starts one angular sample later.
QuadIndices_Shifted(i) ==
  LET a == i * 2 + 2
      b == a + 1
      c == a + 2
      d == c + 1
  IN <<a, c, b, b, c, d>>

\* indices.push(a, c, b); indices.push(b, c, d)
QuadIndices(i) ==
  LET a == i * 2
      b == a + 1
      c == a + 2
      d == c + 1
  IN <<a, c, b, b, c, d>>

\* Second loop: for (i = 0; i < radSegs; i++).
RECURSIVE IndexLoop(_, _, _)
IndexLoop(radSegs, i, indices) ==
  IF i < radSegs
  THEN IndexLoop(radSegs, i + 1, indices \o QuadIndices(i))
  ELSE indices

\* Vertices and indices are numbered from 0 in the buffers; sequence position
\* k + 1 holds buffer element k.
partialCylinder(radius, height, arcStart, arcEnd, radSegs) ==
  LET args == [radius |-> radius, height |-> height, arcStart |-> arcStart,
               arcEnd |-> arcEnd, radSegs |-> radSegs]
      vn == VertexLoop(args, 0, <<>>, <<>>)
  IN [verts |-> vn.verts, norms |-> vn.norms,
      indices |-> IndexLoop(radSegs, 0, <<>>)]

NoGeo == [verts |-> <<>>, norms |-> <<>>, indices |-> <<>>]

\* Inputs of the housing construction.
CutArcs == {[cutStart |-> CUT_START, cutEnd |-> CUT_END],
            [cutStart |-> 0, cutEnd |-> 90],
            [cutStart |-> 0, cutEnd |-> 180],
            [cutStart |-> 90, cutEnd |-> 330],
            [cutStart |-> 100, cutEnd |-> 40],
            [cutStart |-> 0 - 180, cutEnd |-> 120]}
Radii == {1, 2}
Heights == {1, 3}

ArcOf(cut) == [cutStart |-> cut.cutStart, cutEnd |-> cut.cutEnd,
               solidStart |-> 0, solidEnd |-> 0, done |-> FALSE]
PcOf(radius, height, radSegs) ==
  [args |-> [radius |-> radius, height |-> height, arcStart |-> 0,
             arcEnd |-> 0, radSegs |-> radSegs],
   geo |-> NoGeo]

(***************************************************************************)
(* Cooling fins of the cutaway housing.  A fin angle is kept in units of   *)
(* 1 / (2 FIN_COUNT) degree, in which (i + 0.5) / FIN_COUNT is exact.      *)
(***************************************************************************)
FinUnit == 2 * FIN_COUNT

\* Variant of FinAngle: the fins are spread from the start of the cut arc.
FinAngle_FromCut(solidStart, solidEnd, i) ==
  (solidEnd - FullTurn) * FinUnit + (solidEnd - solidStart) * (2 * i + 1)

\* const a = SOLID_START + (SOLID_END - SOLID_START) * ((i + 0.5) / FIN_COUNT)
FinAngle(solidStart, solidEnd, i) ==
  solidStart * FinUnit + (solidEnd - solidStart) * (2 * i + 1)

(***************************************************************************)
(* Chart series, generated when the module is loaded.  Values are kept in  *)
(* 1/100; Math.random() is a stream of draws in 1/1000 fixed by a seed.    *)
(***************************************************************************)
Seeds == {1, 2, 3}
Random(seed, n) == ((seed * 389 + n * 617) * 61) % 1000

\* Math.sin(i * 0.3): 0.3 rad is 17.19 degrees.
SinRad03(i) == Sin((i * 1719) \div 100)

\* One sample: base + (Math.random() - 0.5) * noise + Math.sin(i * 0.3) * (noise * 0.4)
Sample(base, noise, i, r) ==
  base + ((r - 500) * noise) \div 1000 + (SinRad03(i) * ((noise * 4) \div 10)) \div Scale

\* Variant of generateSeries: one sample more than count.
generateSeries_Inclusive(base, noise, count, seed) ==
  [j \in 1..(count + 1) |-> Sample(base, noise, j - 1, Random(seed, j - 1))]

\* Array.from({ length: count }, (_, i) => ...)
generateSeries(base, noise, count, seed) ==
  [j \in 1..count |-> Sample(base, noise, j - 1, Random(seed, j - 1))]

\* +v.toFixed(1), for a value in 1/100.
ToFixed1(v) == ((v + 5) \div 10) * 10

vibData(seed) ==
  LET g == generateSeries(280, 320, 60, seed)
  IN [j \in 1..Len(g) |-> [t |-> j - 1, vibration |-> g[j], threshold |-> 450]]

tempData(seed) ==
  LET g == generateSeries(5800, 1400, 60, seed + 1)
  IN [j \in 1..Len(g) |-> [t |-> j - 1, temperature |-> ToFixed1(g[j]), limit |-> 9000]]

currentData(seed) ==
  LET g == generateSeries(420, 80, 60, seed + 2)
  IN [j \in 1..Len(g) |->
        [t |-> j - 1, phaseA |-> g[j],
         phaseB |-> g[j] + ((Random(seed + 3, 2 * j) - 500) * 60) \div 1000,
         phaseC |-> g[j] - ((Random(seed + 3, 2 * j + 1) - 500) * 60) \div 1000]]

Loaded(seed) ==
  [vibData |-> vibData(seed), tempData |-> tempData(seed),
   currentData |-> currentData(seed)]

\* The series are module constants that the viewer never reads: the
\* specifications of the viewer leave them out and SpecApp follows them.
NoSeries == [vibData |-> <<>>, tempData |-> <<>>, currentData |-> <<>>]

Tabs == {"vibration", "temperature", "current"}

(***************************************************************************)
(* Initial state: the component has rendered, no effect has run yet.       *)
(***************************************************************************)
Unmounted ==
  /\ phase = "idle"
  /\ mounts = 0
  /\ selectedComp = Null
  /\ highlightRef = Null
  /\ lastClick = Null
  /\ prevSel = Null
  /\ timeRef = 0
  /\ animRef = 0
  /\ rafPending = {}
  /\ rafNext = 1
  /\ rot = <<>>
  /\ material = <<>>
  /\ origMats = <<>>
  /\ emissive = <<>>
  /\ sph = NoCamera
  /\ isDrag = FALSE
  /\ prev = [x |-> 0, y |-> 0]
  /\ listeners = [n \in ListenerNames |-> 0]
  /\ disposed = 0
  /\ view = NoView
  /\ fins = <<>>
  /\ activeTab = "vibration"
  /\ time = 0

Init ==
  /\ variant \in Variants
  /\ Unmounted
  /\ arc = ArcOf([cutStart |-> CUT_START, cutEnd |-> CUT_END])
  /\ pc = PcOf(1, 1, 1)
  /\ series = NoSeries

(***************************************************************************)
(* The mount effect of MotorViewer.                                        *)
(***************************************************************************)
BuiltMaterials(v) == [k \in 1..Len(Scene(v)) |-> Scene(v)[k].mat]
\* Variant of BuiltOrigMats: the meshes of the housing are not recorded.
BuiltOrigMats_Partial(v) ==
  [k \in {j \in meshIdx[v] : Scene(v)[j].compId # "housing"} |-> Scene(v)[k].mat]

\* motor.traverse((c) => { if (c.isMesh) origMats.set(c, c.material); })
BuiltOrigMats(v) == [k \in meshIdx[v] |-> Scene(v)[k].mat]

Mount ==
  /\ phase \in {"idle", "torndown"}
  /\ mounts < MaxMounts
  /\ mounts' = mounts + 1
  /\ \E hasContainer \in BOOLEAN :
       IF ~hasContainer
       THEN /\ phase' = "nomount"
            /\ UNCHANGED <<timeRef, animRef, rafPending, rafNext, rot, material,
                           origMats, emissive, sph, isDrag, prev, listeners, disposed,
                           view>>
       ELSE /\ phase' = "mounted"
            /\ origMats' = BuiltOrigMats(variant)
            /\ sph' = SphInit(variant)
            /\ isDrag' = FALSE
            /\ prev' = [x |-> 0, y |-> 0]
            /\ listeners' = [n \in ListenerNames |->
                               IF n \in CanvasListeners THEN 1 ELSE listeners[n] + 1]
            /\ disposed' = 0
            /\ \E size \in MountSizes : view' = Sized(size.w, size.h)
            /\ Animate(BuiltMaterials(variant), BuiltOrigMats(variant),
                       [m \in EmissiveMats(variant) |-> [t |-> 0, src |-> 0]],
                       [g \in Groups(variant) |-> 0], rafPending)
  /\ UNCHANGED <<variant, selectedComp, highlightRef, lastClick, prevSel, arc, pc, fins, series, activeTab, time>>

\* The host runs a pending frame request.
Step(limit) ==
  /\ phase \in {"mounted", "torndown"}
  /\ timeRef < limit * TimeStep
  /\ \E h \in rafPending :
       Animate(material, origMats, emissive, rot, rafPending \ {h})
  /\ UNCHANGED <<variant, phase, mounts, selectedComp, highlightRef, lastClick,
                 prevSel, origMats, sph, isDrag, prev, listeners, disposed,
                 view, arc, pc, fins, series, activeTab, time>>

Frame == Step(MaxFrames)

\* Variant of CancelTarget: the handle of the request before the last one.
CancelTarget_Stale == animRef - 1

\* The cleanup returned by the mount effect (none when there was no container).
CancelTarget == animRef

\* Variant of CleanupReturned: the cleanup runs whatever the effect did.
CleanupReturned_Always(ph) == ph \in {"mounted", "nomount"}

\* The effect returns its cleanup only when it got past `if (!container) return;`.
CleanupReturned(ph) == ph = "mounted"

Teardown ==
  /\ phase \in {"mounted", "nomount"}
  /\ phase' = "torndown"
  /\ IF CleanupReturned(phase)
     THEN /\ rafPending' = rafPending \ {CancelTarget}
          /\ listeners' = [n \in ListenerNames |->
                             IF n \in {"window.resize", "window.mouseup"}
                             THEN Max(0, listeners[n] - 1) ELSE listeners[n]]
          /\ disposed' = disposed + 1
     ELSE UNCHANGED <<rafPending, listeners, disposed>>
  /\ UNCHANGED <<variant, mounts, selectedComp, highlightRef, lastClick, prevSel,
                 timeRef, animRef, rafNext, rot, material, origMats, emissive,
                 sph, isDrag, prev, view, arc, pc, fins, series, activeTab, time>>

(***************************************************************************)
(* App: a click on a component card, with the re-render and the effect     *)
(* that copies highlightId into highlightRef.                              *)
(***************************************************************************)
\* Variant of Click: the click itself swaps the materials of the meshes.
Click_Repaint ==
  /\ phase \in {"mounted", "nomount"}
  /\ \E id \in ClickIds(variant) :
       /\ selectedComp' = Toggle(selectedComp, id)
       /\ highlightRef' = Toggle(selectedComp, id)
       /\ lastClick' = id
       /\ prevSel' = selectedComp
       /\ material' = HighlightPass(variant, material, origMats, Toggle(selectedComp, id))
  /\ UNCHANGED <<variant, phase, mounts, timeRef, animRef, rafPending, rafNext,
                 rot, origMats, emissive, sph, isDrag, prev, listeners,
                 disposed, view, arc, pc, fins, series, activeTab, time>>

\* A click on one of the cards `ids`.
ClickOn(ids) ==
  /\ phase \in {"mounted", "nomount"}
  /\ \E id \in ids :
       /\ selectedComp' = Toggle(selectedComp, id)
       /\ highlightRef' = Toggle(selectedComp, id)
       /\ lastClick' = id
       /\ prevSel' = selectedComp
  /\ UNCHANGED <<variant, phase, mounts, timeRef, animRef, rafPending, rafNext,
                 rot, material, origMats, emissive, sph, isDrag, prev, listeners,
                 disposed, view, arc, pc, fins, series, activeTab, time>>

Click == ClickOn(ClickIds(variant))

(***************************************************************************)
(* Orbit controls.                                                         *)
(***************************************************************************)
Clamp(lo, hi, x) == Max(lo, Min(hi, x))

\* Variant of MovedSph: the polar angle is not clamped.
MovedSph_NoClamp(s, p, x, y) ==
  [radius |-> s.radius,
   theta |-> s.theta - (x - p.x) * DragGain,
   phi |-> s.phi - (y - p.y) * DragGain]

MovedSph(s, p, x, y) ==
  [radius |-> s.radius,
   theta |-> s.theta - (x - p.x) * DragGain,
   phi |-> Clamp(PhiMin, PhiMax, s.phi - (y - p.y) * DragGain)]

\* Variant of WheeledSph: the radius is not clamped.
WheeledSph_NoClamp(v, s, deltaY) ==
  [s EXCEPT !.radius = s.radius + deltaY * WheelGain]

WheeledSph(v, s, deltaY) ==
  [s EXCEPT !.radius = Clamp(RadiusMin(v), RadiusMax(v), s.radius + deltaY * WheelGain)]

ThetaInRange(s) == Abs(s.theta - SphInit(variant).theta) <= MaxTheta

CameraFrame == <<variant, phase, mounts, selectedComp, highlightRef, lastClick,
                 prevSel, timeRef, animRef, rafPending, rafNext, rot, material,
                 origMats, emissive, listeners, disposed, view, arc, pc, fins, series, activeTab, time>>

onDown(x, y) ==
  /\ isDrag' = TRUE
  /\ prev' = [x |-> x, y |-> y]
  /\ UNCHANGED sph

onUp ==
  /\ isDrag' = FALSE
  /\ UNCHANGED <<sph, prev>>

\* Variant of onMove: a move turns the camera whether or not a drag is on.
onMove_Always(x, y) ==
  /\ ThetaInRange(MovedSph(sph, prev, x, y))
  /\ sph' = MovedSph(sph, prev, x, y)
  /\ prev' = [x |-> x, y |-> y]
  /\ UNCHANGED isDrag

onMove(x, y) ==
  IF ~isDrag
  THEN UNCHANGED <<sph, isDrag, prev>>
  ELSE /\ ThetaInRange(MovedSph(sph, prev, x, y))
       /\ sph' = MovedSph(sph, prev, x, y)
       /\ prev' = [x |-> x, y |-> y]
       /\ UNCHANGED isDrag

CanvasLive == phase = "mounted"

MouseDownAt(p) ==
  /\ CanvasLive /\ listeners["canvas.mousedown"] > 0
  /\ onDown(p.x, p.y)
  /\ UNCHANGED CameraFrame

MouseDown == \E p \in Pointers : MouseDownAt(p)

MouseUp ==
  /\ listeners["window.mouseup"] > 0
  /\ onUp
  /\ UNCHANGED CameraFrame

MouseMoveAt(p) ==
  /\ CanvasLive /\ listeners["canvas.mousemove"] > 0
  /\ onMove(p.x, p.y)
  /\ UNCHANGED CameraFrame

MouseMove == \E p \in Pointers : MouseMoveAt(p)

Wheel ==
  /\ CanvasLive /\ listeners["canvas.wheel"] > 0
  /\ \E d \in WheelDeltas : sph' = WheeledSph(variant, sph, d)
  /\ UNCHANGED <<isDrag, prev>>
  /\ UNCHANGED CameraFrame

\* Touch events: n is e.touches.length, the contacts on the surface once the
\* event has taken effect; p is the position of e.touches[0].
TouchStartWith(n, p) ==
  /\ CanvasLive /\ listeners["canvas.touchstart"] > 0
  /\ IF n = 1 THEN onDown(p.x, p.y) ELSE UNCHANGED <<sph, isDrag, prev>>
  /\ UNCHANGED CameraFrame

TouchStart == \E n \in TouchCounts, p \in Pointers : TouchStartWith(n, p)

TouchMoveWith(n, p) ==
  /\ CanvasLive /\ listeners["canvas.touchmove"] > 0
  /\ IF n = 1 THEN onMove(p.x, p.y) ELSE UNCHANGED <<sph, isDrag, prev>>
  /\ UNCHANGED CameraFrame

TouchMove == \E n \in TouchCounts, p \in Pointers : TouchMoveWith(n, p)

\* touchend is bound to onUp itself, which does not look at the event.
TouchEndWith(n) ==
  /\ CanvasLive /\ listeners["canvas.touchend"] > 0
  /\ onUp
  /\ UNCHANGED CameraFrame

TouchEnd == \E n \in TouchesLeft : TouchEndWith(n)

Next ==
  \/ Mount
  \/ Frame
  \/ Teardown
  \/ Click
  \/ MouseDown
  \/ MouseUp
  \/ MouseMove
  \/ Wheel
  \/ TouchStart
  \/ TouchMove
  \/ TouchEnd

Spec == Init /\ [][Next]_vars


(***************************************************************************)
(* The frame loop without pointer input, run past one simulated second.    *)
(***************************************************************************)
FrameRun == Step(MaxRunFrames)

NextRun ==
  \/ Mount
  \/ FrameRun
  \/ Teardown
  \/ Click

SpecRun == Init /\ [][NextRun]_vars

(***************************************************************************)
(* Window resize, with the frame loop and the life cycle.                  *)
(***************************************************************************)
onResize(w, h) == view' = Sized(w, h)

Resize ==
  /\ listeners["window.resize"] > 0
  /\ \E size \in ResizeSizes : onResize(size.w, size.h)
  /\ UNCHANGED <<variant, phase, mounts, selectedComp, highlightRef, lastClick,
                 prevSel, timeRef, animRef, rafPending, rafNext, rot, material,
                 origMats, emissive, sph, isDrag, prev, listeners, disposed,
                 arc, pc, fins, series, activeTab, time>>

NextView ==
  \/ Mount
  \/ Frame
  \/ Teardown
  \/ Click
  \/ Resize

SpecView == Init /\ [][NextView]_vars

(***************************************************************************)
(* The frame loop and the life cycle with every card of the registry       *)
(* clicked, without pointer input.                                         *)
(***************************************************************************)
ClickAny == ClickOn(Ids(variant))

NextCards ==
  \/ Mount
  \/ Frame
  \/ Teardown
  \/ ClickAny

SpecCards == Init /\ [][NextCards]_vars

(***************************************************************************)
(* App with its chart series: the series drawn when the module was loaded, *)
(* the one-second clock, the chart tabs, the cards and the viewer.         *)
(***************************************************************************)
InitApp ==
  /\ variant \in Variants
  /\ Unmounted
  /\ arc = ArcOf([cutStart |-> CUT_START, cutEnd |-> CUT_END])
  /\ pc = PcOf(1, 1, 1)
  /\ series \in {Loaded(seed) : seed \in Seeds}

AppFrame == <<variant, phase, mounts, selectedComp, highlightRef, lastClick,
              prevSel, timeRef, animRef, rafPending, rafNext, rot, material,
              origMats, emissive, sph, isDrag, prev, listeners, disposed, view,
              arc, pc, fins, series>>

AppLive == phase \in {"mounted", "nomount"}

\* setInterval(() => setTime((t) => t + 1), 1000)
Tick ==
  /\ AppLive
  /\ time < MaxTicks
  /\ time' = time + 1
  /\ UNCHANGED activeTab
  /\ UNCHANGED AppFrame

\* onClick={() => setActiveTab(tab)}
SwitchTab ==
  /\ AppLive
  /\ \E tab \in Tabs : activeTab' = tab
  /\ UNCHANGED time
  /\ UNCHANGED AppFrame

NextApp ==
  \/ Mount
  \/ Frame
  \/ Teardown
  \/ Click
  \/ Tick
  \/ SwitchTab

SpecApp == InitApp /\ [][NextApp]_vars

(***************************************************************************)
(* The viewer with frames that keep being rendered: the host runs a        *)
(* pending frame request sooner or later (weak fairness on Frame).  The    *)
(* frame budget bounds the run, so cards are clicked only while a frame    *)
(* can still follow the click.                                             *)
(***************************************************************************)
ClickLive ==
  /\ timeRef < MaxFrames * TimeStep
  /\ Click

NextLive ==
  \/ Mount
  \/ Frame
  \/ Teardown
  \/ ClickLive

SpecLive == Init /\ [][NextLive]_vars /\ WF_vars(Frame)

(***************************************************************************)
(* Construction of the cutaway housing shell, over bounded inputs.         *)
(***************************************************************************)
InitGeo ==
  /\ variant = "cut"
  /\ Unmounted
  /\ arc \in {ArcOf(cut) : cut \in CutArcs}
  /\ pc \in {PcOf(r, h, n) : r \in Radii, h \in Heights, n \in 1..MaxSegs}
  /\ series = NoSeries

GeoFrame == <<variant, phase, mounts, selectedComp, highlightRef, lastClick,
              prevSel, timeRef, animRef, rafPending, rafNext, rot, material,
              origMats, emissive, sph, isDrag, prev, listeners, disposed, view,
              series, activeTab, time>>

\* const SOLID_START = CUT_END; const SOLID_END = CUT_START + Math.PI * 2
CutAngles ==
  /\ ~arc.done
  /\ arc' = [arc EXCEPT !.solidStart = SolidArc(arc.cutStart, arc.cutEnd).start,
                        !.solidEnd = SolidArc(arc.cutStart, arc.cutEnd).end,
                        !.done = TRUE]
  /\ UNCHANGED <<pc, fins>>
  /\ UNCHANGED GeoFrame

\* const housingGeo = partialCylinder(hR, hL, SOLID_START, SOLID_END, radSegs)
HousingGeo ==
  /\ arc.done
  /\ pc.geo = NoGeo
  /\ pc' = [args |-> [pc.args EXCEPT !.arcStart = arc.solidStart,
                                     !.arcEnd = arc.solidEnd],
            geo |-> partialCylinder(pc.args.radius, pc.args.height,
                                    arc.solidStart, arc.solidEnd, pc.args.radSegs)]
  /\ UNCHANGED <<arc, fins>>
  /\ UNCHANGED GeoFrame

\* for (let i = 0; i < FIN_COUNT; i++) { const a = ...; fin.position.set(...) }
CoolingFins ==
  /\ arc.done
  /\ fins = <<>>
  /\ fins' = [j \in 1..FIN_COUNT |-> FinAngle(arc.solidStart, arc.solidEnd, j - 1)]
  /\ UNCHANGED <<arc, pc>>
  /\ UNCHANGED GeoFrame

NextGeo ==
  \/ CutAngles
  \/ HousingGeo
  \/ CoolingFins

SpecGeo == InitGeo /\ [][NextGeo]_vars

(***************************************************************************)
(* Derived notions used by the properties.                                 *)
(***************************************************************************)
SceneBuilt == Len(material) > 0

Highlighted == {k \in DOMAIN material : material[k] = HighlightMat(variant)}

\* Rotation of a group about the spin axis relative to the scene: its own
\* rotation.z composed with that of the groups that contain it.
RECURSIVE NetRot(_, _)
NetRot(r, g) == IF g \in DOMAIN r THEN r[g] + NetRot(r, GroupParent(g)) ELSE 0

(***************************************************************************)
(* Properties.                                                             *)
(***************************************************************************)

\* C1: after every run of the frame callback, every mesh whose componentId is
\* the selected id carries the highlight material and every other mesh carries
\* the material recorded for it in origMats.
C1_HighlightAssignment ==
  [][timeRef' # timeRef =>
       \A k \in MeshIdx(variant) :
         material'[k] = IF selectedComp' # Null /\ Scene(variant)[k].compId = selectedComp'
                        THEN HighlightMat(variant)
                        ELSE origMats'[k]]_vars

C1_Witness ==
  /\ phase = "mounted"
  /\ prevSel # Null
  /\ selectedComp \notin {Null, prevSel}
  /\ Highlighted # {}
  /\ \A k \in Highlighted : Scene(variant)[k].compId = selectedComp

\* C2 (as claimed): clicking X and then X again yields no selection, from any
\* selection state; clicking X and then another card Y yields Y; the selection
\* is none or one id.
C2_ToggleFromAnyState ==
  [][selectedComp' # selectedComp =>
       /\ (lastClick' = lastClick => selectedComp' = Null)
       /\ (lastClick # Null /\ lastClick' # lastClick => selectedComp' = lastClick')
       /\ selectedComp' \in Ids(variant) \cup {Null}]_vars

\* C2 (amended): clicking X and then X again yields no selection when X was not
\* selected before the first of the two clicks, and leaves X selected when it
\* was; clicking X and then another card Y yields Y; the selection is none or
\* one id.
C2_Toggle ==
  [][selectedComp' # selectedComp =>
       /\ (lastClick' = lastClick /\ prevSel # lastClick => selectedComp' = Null)
       /\ (lastClick' = lastClick /\ prevSel = lastClick => selectedComp' = lastClick)
       /\ (lastClick # Null /\ lastClick' # lastClick => selectedComp' = lastClick')
       /\ selectedComp' \in Ids(variant) \cup {Null}]_vars

C2_Witness ==
  /\ lastClick # Null
  /\ prevSel = lastClick
  /\ selectedComp = Null

\* C3: after a frame, running the highlight pass again with the same selection
\* leaves every material as the frame left it.
C3_HighlightIdempotent ==
  [][timeRef' # timeRef =>
       HighlightPass(variant, material', origMats', highlightRef') = material']_vars

C3_Witness ==
  /\ mounts = 1
  /\ phase = "mounted"
  /\ timeRef = 3 * TimeStep
  /\ selectedComp # Null
  /\ prevSel = Null
  /\ Highlighted # {}

\* C4: every run of the frame callback advances the time by 0.016 s, whatever
\* input events occurred, and leaves the rotor group at time * (1740/60) * 2 PI,
\* so the rotor angle grows by 0.016 * (1740/60) * 2 PI per frame.
C4_FrameStep ==
  [][/\ (timeRef' # timeRef \/ rafNext' # rafNext) =>
          /\ timeRef' = timeRef + 16
          /\ rot'["rotorG"] * 60 = timeRef' * 1740 * (TwoPi \div 1000)
          /\ (SceneBuilt =>
                (rot'["rotorG"] - rot["rotorG"]) * 60 = 16 * 1740 * (TwoPi \div 1000))
     /\ (SceneBuilt /\ timeRef' = timeRef) => rot'["rotorG"] = rot["rotorG"]]_vars

C4_Witness ==
  /\ phase = "mounted"
  /\ mounts = 1
  /\ timeRef = 2 * TimeStep
  /\ isDrag
  /\ sph # SphInit(variant)
  /\ rot["rotorG"] = 2 * TimeStep * AngV

\* C5: after every frame the fan's rotation relative to the scene equals the
\* rotor group's angle, in both variants.
C5_FanTurnsWithRotor ==
  SceneBuilt => NetRot(rot, "fanG") = rot["rotorG"]

\* C6 (as claimed): the time reaches exactly 1.0 s at some frame, and the rotor
\* angle is then 29 whole revolutions.
C6_OneSecondExact ==
  (timeRef >= 1000 /\ timeRef - TimeStep < 1000) =>
     /\ timeRef = 1000
     /\ rot["rotorG"] = 29 * TwoPi
     /\ rot["rotorG"] % TwoPi = 0

\* C6 (amended): the time is never exactly 1.0 s; the first frame at or past
\* 1.0 s is frame 63 at 1.008 s, where the rotor angle is 1.008 * 29 = 29.232
\* revolutions, residual 0.232 of a revolution; at every frame the angle is
\* time * (1740/60) * 2 PI.
C6_OneSecondPassed ==
  /\ timeRef # 1000
  /\ SceneBuilt => rot["rotorG"] * 60 = timeRef * 1740 * (TwoPi \div 1000)
  /\ (SceneBuilt /\ timeRef >= 1000 /\ timeRef - TimeStep < 1000) =>
        /\ timeRef = 63 * 16
        /\ rot["rotorG"] = 29232 * (TwoPi \div 1000)
        /\ rot["rotorG"] % TwoPi = 232 * (TwoPi \div 1000)

C6_Witness ==
  /\ SceneBuilt
  /\ timeRef = 1008
  /\ rot["rotorG"] = 29232 * (TwoPi \div 1000)

\* C7: whenever the camera exists, the orbit radius is within [0.2, 1.0]
\* (sew_predictive.jsx) or [0.22, 0.9] (cutaway variant).
C7_RadiusClamp ==
  SceneBuilt =>
     IF variant = "sew"
     THEN 2000 <= sph.radius /\ sph.radius <= 10000
     ELSE 2200 <= sph.radius /\ sph.radius <= 9000

C7_Witness ==
  /\ phase = "mounted"
  /\ sph.radius = (IF variant = "sew" THEN 10000 ELSE 9000)
  /\ isDrag

\* C8: whenever the camera exists, the polar angle is within [0.15, PI - 0.15].
C8_PolarClamp ==
  SceneBuilt => 1500 <= sph.phi /\ sph.phi <= Pi - 1500

C8_Witness ==
  /\ phase = "mounted"
  /\ isDrag
  /\ sph.phi = 1500
  /\ sph.theta # SphInit(variant).theta

\* C9: while the viewer is mounted the one pending frame request is the one
\* animRef holds; after teardown no frame request is pending and the frame
\* callback does not run.
C9_FrameLoopCancelled ==
  /\ [](phase = "mounted" => rafPending = {animRef})
  /\ [](phase = "torndown" => rafPending = {})
  /\ [][phase = "torndown" /\ phase' = "torndown" =>
          timeRef' = timeRef /\ rafNext' = rafNext]_vars

C9_Witness ==
  /\ phase = "torndown"
  /\ disposed = 1
  /\ timeRef >= 2 * TimeStep
  /\ animRef > 1

\* C10: after teardown the renderer has been disposed exactly once and none of
\* the eight listeners registered at initialization is still registered.
C10_AllReleased ==
  (phase = "torndown" /\ SceneBuilt) =>
     /\ disposed = 1
     /\ \A n \in ListenerNames : listeners[n] = 0

\* C11: when the mount effect finds no mount target it changes nothing (no
\* renderer, no listener, no frame request, no scene, no camera), no frame is
\* requested while the viewer stays in that condition, and the teardown that
\* follows releases nothing.
C11_MissingMountNoOp ==
  [][/\ (phase # "nomount" /\ phase' = "nomount") =>
          UNCHANGED <<timeRef, animRef, rafPending, rafNext, rot, material,
                      origMats, emissive, sph, isDrag, prev, listeners, disposed,
                      view, selectedComp, highlightRef>>
     /\ phase = "nomount" =>
          UNCHANGED <<timeRef, animRef, rafPending, rafNext, rot, material,
                      origMats, emissive, sph, isDrag, prev, listeners, disposed,
                      view>>]_vars

C11_Witness ==
  /\ phase = "torndown"
  /\ mounts = 1
  /\ ~SceneBuilt
  /\ view = NoView
  /\ rafPending = {}
  /\ \A n \in ListenerNames : listeners[n] = 0

\* C12: a window resize that finds the container with zero width or zero
\* height leaves the renderer size and the camera aspect as they were, so every
\* change of size after construction installs a non-zero size and a finite
\* aspect.
C12_ZeroSizeResizeSkipped ==
  [][(SceneBuilt /\ view' # view) =>
        /\ view'.w # 0
        /\ view'.h # 0
        /\ view'.aspect.kind = "finite"]_vars

\* C13: a touch event with one contact has the effect of the corresponding
\* mouse event (touchstart as mousedown, touchmove as mousemove, the end of the
\* only touch as mouseup), and a touch event of a multi-touch gesture (a start
\* or a move with two contacts, or the lifting of one of two contacts) changes
\* neither the drag flag nor the camera.
C13_TouchAsMouse ==
  [][/\ \A p \in Pointers :
          /\ TouchStartWith(1, p) <=> MouseDownAt(p)
          /\ TouchMoveWith(1, p) <=> MouseMoveAt(p)
     /\ TouchEndWith(0) <=> MouseUp
     /\ \A p \in Pointers :
          (TouchStartWith(2, p) \/ TouchMoveWith(2, p) \/ TouchEndWith(1)) =>
             UNCHANGED <<isDrag, sph>>]_vars

\* C14: within one mounted viewer, the drag flag is raised only by a pointer
\* down (mouse, or touch with one contact) and lowered only by a release; a
\* pointer down stores its own position as the origin of the next move and
\* leaves the camera alone; the camera angles change only during a drag, by the
\* pixel distance from the stored position; outside a drag nothing but the
\* wheel (the radius) changes the camera.
C14_DragProtocol ==
  [][(phase = "mounted" /\ phase' = "mounted") =>
        /\ (~isDrag /\ isDrag') =>
              \E p \in Pointers : MouseDownAt(p) \/ TouchStartWith(1, p)
        /\ (isDrag /\ ~isDrag') => (MouseUp \/ TouchEndWith(0))
        /\ \A p \in Pointers :
              (MouseDownAt(p) \/ TouchStartWith(1, p)) =>
                 (isDrag' /\ prev' = p /\ sph' = sph)
        /\ (sph'.theta # sph.theta \/ sph'.phi # sph.phi) =>
              /\ isDrag /\ isDrag'
              /\ sph'.radius = sph.radius
              /\ sph'.theta = sph.theta - (prev'.x - prev.x) * 50
              /\ sph'.phi = Max(1500, Min(Pi - 1500, sph.phi - (prev'.y - prev.y) * 50))
        /\ (~isDrag /\ sph' # sph) =>
              (sph'.theta = sph.theta /\ sph'.phi = sph.phi /\ UNCHANGED <<isDrag, prev>>)]_vars

C14_Witness ==
  /\ phase = "mounted"
  /\ isDrag
  /\ prev = [x |-> 0, y |-> 0]
  /\ sph.theta = SphInit(variant).theta - 200 * DragGain

\* C15: origMats is filled when the scene is built, no later than the first
\* highlight pass, with one entry for every mesh of the motor assembly (the
\* material the mesh was constructed with); it never changes afterwards and
\* none of its values is the highlight material.
C15_OrigMatsOnce ==
  [][/\ (timeRef' # timeRef) =>
          /\ DOMAIN origMats' = MeshIdx(variant)
          /\ \A k \in MeshIdx(variant) :
                /\ origMats'[k] = Scene(variant)[k].mat
                /\ origMats'[k] # HighlightMat(variant)
     /\ (origMats' # origMats) => (~SceneBuilt /\ phase' = "mounted")]_vars

C15_Witness ==
  /\ phase = "mounted"
  /\ mounts = 2
  /\ timeRef >= 2 * TimeStep
  /\ selectedComp # Null
  /\ \E k \in Highlighted : origMats[k] = Scene(variant)[k].mat

\* C16: every mesh of the motor assembly carries one componentId, which is one
\* of the eight registry ids, and the frame loop, the selection and the orbit
\* controls leave the tags as construction set them.
C16_ComponentTags ==
  SceneBuilt =>
     /\ \A k \in DOMAIN origMats :
           Scene(variant)[k].compId \in
              {"housing", "bearing_drive", "bearing_fan", "stator_winding",
               "rotor_bars", "shaft", "fan_guard", "junction_box"}
     /\ \A k \in DOMAIN material :
           Scene(variant)[k].isMesh => k \in DOMAIN origMats
     /\ \A k \in DOMAIN origMats : Scene(variant)[k].compId \in Ids(variant)

C16_Witness ==
  /\ SceneBuilt
  /\ timeRef = 3 * TimeStep
  /\ Cardinality({Scene(variant)[k].compId : k \in DOMAIN origMats}) = 8
  /\ \E k \in DOMAIN material : ~Scene(variant)[k].isMesh

\* Buffers returned by partialCylinder, read with the 0-based numbering of the code.
GeoBuilt == pc.geo # NoGeo
Vert(j) == pc.geo.verts[j + 1]
Norm(j) == pc.geo.norms[j + 1]
Idx(j) == pc.geo.indices[j + 1]

\* C17: for radSegs = n >= 1 partialCylinder returns 2 (n + 1) vertices (and as
\* many normals) and 2 n triangles; every index names an existing vertex;
\* vertices 2 i and 2 i + 1 are the bottom and the top vertex of angular sample
\* i; the two triangles of quad i use exactly the four vertices of samples i
\* and i + 1, so nothing closes the ends or joins the last sample to the first.
C17_PartialCylinderCounts ==
  GeoBuilt =>
     LET n == pc.args.radSegs
         halfH == (pc.args.height * Scale) \div 2
     IN /\ n >= 1
        /\ Len(pc.geo.verts) = 2 * (n + 1)
        /\ Len(pc.geo.norms) = 2 * (n + 1)
        /\ Len(pc.geo.indices) = 3 * (2 * n)
        /\ \A j \in 0..(6 * n - 1) : Idx(j) \in 0..(2 * (n + 1) - 1)
        /\ \A i \in 0..n :
              LET a == SampleAngle(pc.args.arcStart, pc.args.arcEnd, n, i)
              IN /\ Vert(2 * i) = <<Sin(a) * pc.args.radius, Cos(a) * pc.args.radius, 0 - halfH>>
                 /\ Vert(2 * i + 1) = <<Sin(a) * pc.args.radius, Cos(a) * pc.args.radius, halfH>>
        /\ \A i \in 0..(n - 1) :
              /\ {Idx(6 * i + k) : k \in 0..5} = {2 * i, 2 * i + 1, 2 * i + 2, 2 * i + 3}
              /\ Cardinality({Idx(6 * i + k) : k \in 0..2}) = 3
              /\ Cardinality({Idx(6 * i + k) : k \in 3..5}) = 3

C17_Witness ==
  /\ GeoBuilt
  /\ pc.args.radSegs = 2
  /\ Len(pc.geo.verts) = 6
  /\ Len(pc.geo.indices) = 12
  /\ pc.args.arcStart = 140
  /\ pc.args.arcEnd = 310

\* Geometric face normal of the triangle with index positions 3 t .. 3 t + 2:
\* (v1 - v0) x (v2 - v0), the right-hand rule over the index order, in 1/1000
\* of the product of two position units.
Sub(u, v) == <<u[1] - v[1], u[2] - v[2], u[3] - v[3]>>
Cross(u, v) ==
  <<(u[2] * v[3] - u[3] * v[2]) \div Scale,
    (u[3] * v[1] - u[1] * v[3]) \div Scale,
    (u[1] * v[2] - u[2] * v[1]) \div Scale>>
Dot(u, v) == u[1] * v[1] + u[2] * v[2] + u[3] * v[3]
FaceNormal(t) ==
  Cross(Sub(Vert(Idx(3 * t + 1)), Vert(Idx(3 * t))),
        Sub(Vert(Idx(3 * t + 2)), Vert(Idx(3 * t))))

\* C18: the face normal of both triangles of every quad points outward, the
\* way the radial vertex normals of the triangle do (stated for quads that
\* span less than half a turn, where the two directions can be compared).
C18_OutwardWinding ==
  (GeoBuilt /\ pc.args.arcEnd - pc.args.arcStart < 180 * pc.args.radSegs) =>
     \A t \in 0..(2 * pc.args.radSegs - 1) :
        \A k \in 0..2 : Dot(FaceNormal(t), Norm(Idx(3 * t + k))) > 0

\* Rounding of the tabulated sine and cosine: a squared length may miss the
\* square of the unit by this much.
UnitTol == 2 * Scale

\* C19: every vertex normal has no axial component, has unit length (to the
\* rounding of sine and cosine), is the radial direction of the angular sample
\* of its vertex, which is the vertex position in the cross-section divided by
\* the radius, and is shared by the bottom and the top vertex of a sample.
C19_RadialNormals ==
  GeoBuilt =>
     \A i \in 0..pc.args.radSegs :
        LET a == SampleAngle(pc.args.arcStart, pc.args.arcEnd, pc.args.radSegs, i)
        IN /\ Norm(2 * i) = Norm(2 * i + 1)
           /\ \A j \in {2 * i, 2 * i + 1} :
                 /\ Norm(j)[3] = 0
                 /\ Abs(Dot(Norm(j), Norm(j)) - Scale * Scale) <= UnitTol
                 /\ Norm(j)[1] = Sin(a) /\ Norm(j)[2] = Cos(a)
                 /\ Norm(j)[1] * pc.args.radius = Vert(j)[1]
                 /\ Norm(j)[2] * pc.args.radius = Vert(j)[2]

C19_Witness ==
  /\ GeoBuilt
  /\ pc.args.radSegs = 5
  /\ pc.args.radius = 2
  /\ pc.args.arcStart = 140
  /\ \E j \in 0..11 : Norm(j)[1] < 0 /\ Norm(j)[2] < 0 /\ Vert(j)[3] > 0

\* C20: the solid arc starts where the cut arc ends and ends one full turn
\* after the cut arc starts; for a cut narrower than a full turn its span is
\* positive and equals 2 PI - (cutEnd - cutStart); for the configured cut of
\* -50..140 degrees the solid arc is 140..310 degrees, 170 degrees wide.
C20_ArcComplement ==
  arc.done =>
     /\ arc.solidStart = arc.cutEnd
     /\ arc.solidEnd = arc.cutStart + 360
     /\ (arc.cutEnd - arc.cutStart < 360) =>
           /\ arc.solidEnd - arc.solidStart > 0
           /\ arc.solidEnd - arc.solidStart = 360 - (arc.cutEnd - arc.cutStart)
     /\ (arc.cutStart = 0 - 50 /\ arc.cutEnd = 140) =>
           /\ arc.solidStart = 140
           /\ arc.solidEnd = 310
           /\ arc.solidEnd - arc.solidStart = 170

C20_Witness ==
  /\ arc.done
  /\ arc.cutStart = CUT_START
  /\ arc.cutEnd = CUT_END
  /\ arc.solidEnd - arc.solidStart = 170
  /\ ~GeoBuilt

\* Angular position of a winding mesh around the bore, in 1/72 turn: coil i of
\* 36 (sew_predictive.jsx), slot i of SLOT_N and end loop i of END_LOOPS at
\* either end (cutaway variant).  The pulse phase of a mesh is computed from
\* its position, which this angle fixes.
BoreAngle(o) ==
  CASE o.kind = "coil" -> 2 * o.n
    [] o.kind \in {"liner", "bundle"} -> (72 \div SLOT_N) * o.n
    [] o.kind \in {"insul", "copper"} -> (72 \div END_LOOPS) * (o.n % END_LOOPS)
    [] OTHER -> 0

\* The mesh whose position supplied the phase of the intensity that mesh k
\* is drawn with.
PhaseSource(k) == emissive[origMats[k]].src

\* C21: after every frame each winding mesh whose recorded material is the
\* winding copper is drawn with an emissive intensity computed from the
\* current time and from its own angular position, so two such meshes at
\* different angles show different phases in the same frame.
C21_PulsePerMesh ==
  SceneBuilt =>
     \A k \in PulseTargets(variant, origMats) :
        /\ emissive[origMats[k]].t = timeRef
        /\ BoreAngle(Scene(variant)[PhaseSource(k)]) = BoreAngle(Scene(variant)[k])

\* C22: in the cutaway variant the groups selected for the orbit animation are
\* exactly the two bearing-ball groups, each holding the nine balls of one
\* bearing; after every frame each is turned by 0.44 times the rotor angle, and
\* every other group of the stator assembly (the stator group itself, the guard
\* spokes) is not turned.
C22_BearingBallOrbit ==
  (SceneBuilt /\ variant = "cut") =>
     /\ bbGroups[variant] = {N("ballG", 1), N("ballG", 2)}
     /\ \A i \in 1..2 :
           /\ Cardinality({k \in DOMAIN origMats :
                             /\ Scene(variant)[k].parent = N("ballG", i)
                             /\ Scene(variant)[k].kind = "ball"
                             /\ Scene(variant)[k].compId = Drive(i - 1)}) = 9
           /\ rot[N("ballG", i)] * 100 = rot["rotorG"] * 44
     /\ \A g \in DOMAIN rot :
           (g = "statorG" \/ (GroupParent(g) = "statorG" /\ g \notin {N("ballG", 1), N("ballG", 2)}))
              => rot[g] = 0

C22_Witness ==
  /\ variant = "cut"
  /\ phase = "mounted"
  /\ timeRef = 2 * TimeStep
  /\ rot["ballG1"] = 40832
  /\ rot["ballG2"] = 40832
  /\ rot["rotorG"] = 92800

\* C23: each of the 18 fins of the cutaway housing is placed at an angle
\* strictly between the start and the end of the solid arc, and so at no
\* angle of the cut arc (taken modulo a full turn).
C23_FinsOnSolidArc ==
  fins # <<>> =>
     /\ Len(fins) = 18
     /\ \A j \in 1..Len(fins) :
           /\ arc.solidStart * FinUnit < fins[j]
           /\ fins[j] < arc.solidEnd * FinUnit
           /\ \A m \in (0 - 2)..2 :
                 ~(/\ arc.cutStart * FinUnit <= fins[j] + m * 360 * FinUnit
                   /\ fins[j] + m * 360 * FinUnit <= arc.cutEnd * FinUnit)

C23_Witness ==
  /\ arc.cutStart = CUT_START
  /\ arc.cutEnd = CUT_END
  /\ Len(fins) = FIN_COUNT
  /\ fins[1] = 140 * 36 + 170
  /\ fins[18] = 310 * 36 - 170

\* C24: within one mount, a step that changes the drag state or the camera's
\* spherical coordinates (a pointer, wheel or touch handler) changes neither
\* the accumulated time, a group rotation, a mesh material, a material's
\* emissive intensity, the original-material map nor the selection; a step
\* that changes the selection (a card click) changes none of the former nor
\* the camera and drag state; and a step that advances the time (the frame
\* callback) changes neither the camera, the drag state nor the selection.
C24_HandlerFrames ==
  [][mounts' = mounts =>
       /\ <<sph, isDrag, prev>>' # <<sph, isDrag, prev>> =>
             UNCHANGED <<timeRef, rot, material, origMats, emissive,
                         selectedComp, highlightRef>>
       /\ selectedComp' # selectedComp =>
             UNCHANGED <<timeRef, rot, material, origMats, emissive,
                         sph, isDrag, prev>>
       /\ timeRef' # timeRef =>
             UNCHANGED <<sph, isDrag, prev, selectedComp, highlightRef>>]_vars

C24_Witness ==
  /\ phase = "mounted"
  /\ isDrag
  /\ sph.theta # SphInit(variant).theta
  /\ sph.radius # SphInit(variant).radius
  /\ selectedComp # Null
  /\ Highlighted # {}
  /\ timeRef >= 2 * TimeStep

\* C25: once the scene is built, a step within the same mount keeps the
\* objects of the assembly and the group each belongs to, changes a material
\* pointer only on a mesh, changes the emissive intensity of the winding
\* material only, and changes the rotation of the rotor, fan and bearing-ball
\* groups only; the stator group keeps the rotation it was built with.
C25_SceneImmutable ==
  [][(SceneBuilt /\ mounts' = mounts) =>
       /\ variant' = variant
       /\ DOMAIN material' = DOMAIN material
       /\ parents[variant] \subseteq DOMAIN rot'
       /\ \A k \in DOMAIN material \ meshIdx[variant] : material'[k] = material[k]
       /\ DOMAIN rot' = DOMAIN rot
       /\ \A g \in DOMAIN rot :
             rot'[g] # rot[g] =>
                g \in {G("rotorG"), G("fanG")} \cup {N("ballG", i) : i \in 1..2}
       /\ rot'[G("statorG")] = 0
       /\ \A m \in DOMAIN emissive :
             emissive'[m] # emissive[m] => m = CoilMat(variant)]_vars

C25_Witness ==
  /\ SceneBuilt
  /\ timeRef = 3 * TimeStep
  /\ rot[G("rotorG")] = 3 * TimeStep * AngV
  /\ rot[G("statorG")] = 0
  /\ emissive[CoilMat(variant)].t = timeRef
  /\ Highlighted # {}

\* C28: at most one frame request is pending before and after every step;
\* a step in which the frame callback runs (the time advances) requests
\* exactly one new frame, which is then the only one pending; and no frame
\* request is pending once the viewer is torn down, also after a re-mount.
C28_SingleFrameLoop ==
  [][/\ Cardinality(rafPending) <= 1
     /\ Cardinality(rafPending') <= 1
     /\ timeRef' # timeRef =>
           /\ rafNext' = rafNext + 1
           /\ rafPending' \ rafPending = {rafNext}
           /\ rafPending' = {rafNext}
     /\ timeRef' = timeRef => rafPending' \subseteq rafPending
     /\ phase' = "torndown" => rafPending' = {}]_vars

C28_Witness ==
  /\ mounts = 2
  /\ phase = "mounted"
  /\ Cardinality(rafPending) = 1
  /\ rafNext >= 4
  /\ timeRef = 3 * TimeStep

\* C29: the pulse of every frame writes the emissive intensity of the
\* winding-copper material, whatever the selection, and no frame writes the
\* emissive intensity of any other material: not of the highlight material
\* and, in the cutaway variant, not of the slot-liner and insulation
\* materials of the stator_winding meshes.
C29_PulseTarget ==
  SceneBuilt =>
     /\ emissive[CoilMat(variant)].t = timeRef
     /\ emissive[HighlightMat(variant)] = [t |-> 0, src |-> 0]
     /\ \A m \in DOMAIN emissive :
           m # CoilMat(variant) => emissive[m] = [t |-> 0, src |-> 0]
     /\ variant = "cut" => {M("mSlot"), M("mInsul")} \subseteq DOMAIN emissive

C29_Witness ==
  /\ variant = "cut"
  /\ phase = "mounted"
  /\ selectedComp = "stator_winding"
  /\ \E k \in Highlighted : origMats[k] = M("mSlot")
  /\ \E k \in Highlighted : origMats[k] = M("mCoil")
  /\ timeRef >= 2 * TimeStep
  /\ emissive[M("mCoil")].t = timeRef

\* C30: the registry of either variant holds eight records with pairwise
\* distinct ids; once the scene is built the componentIds carried by the
\* meshes are exactly the registry ids (every mesh carries a registry id and
\* every registry id is carried by a mesh); and after every frame rendered
\* with a card selected, the highlighted set is non-empty and holds meshes of
\* the selected component only.
C30_RegistryCoverage ==
  [][/\ variant' = variant
     /\ Len(COMPONENTS(variant)) = 8
     /\ Cardinality(Ids(variant)) = 8
     /\ SceneBuilt' =>
           {Scene(variant)[k].compId : k \in DOMAIN origMats'} = Ids(variant)
     /\ (timeRef' # timeRef /\ selectedComp' # Null) =>
           /\ Highlighted' # {}
           /\ \A k \in Highlighted' : Scene(variant)[k].compId = selectedComp']_vars

C30_Witness ==
  /\ phase = "mounted"
  /\ prevSel = COMPONENTS(variant)[7]
  /\ lastClick = COMPONENTS(variant)[8]
  /\ selectedComp = COMPONENTS(variant)[8]
  /\ Highlighted # {}
  /\ \A k \in Highlighted : Scene(variant)[k].compId = lastClick

\* C27: each of the three chart series holds 60 records whose sample indices
\* are 0..59 in order, every vibration record carries the threshold 4.5 and
\* every temperature record the limit 90, and no step (clock tick, tab
\* switch, card click, mount, frame, teardown) changes a series.
C27_MockSeries ==
  [][/\ series' = series
     /\ \A name \in {"vibData", "tempData", "currentData"} :
           /\ Len(series[name]) = 60
           /\ \A j \in 1..Len(series[name]) : series[name][j].t = j - 1
     /\ \A j \in 1..Len(series.vibData) : series.vibData[j].threshold = 450
     /\ \A j \in 1..Len(series.tempData) : series.tempData[j].limit = 9000]_vars

C27_Witness ==
  /\ time >= 1
  /\ activeTab = "current"
  /\ selectedComp # Null
  /\ timeRef >= 2 * TimeStep
  /\ Len(series.currentData) = 60
  /\ series.vibData[60].t = 59
  /\ series.tempData[1].limit = 9000

\* The highlighted set is exactly the set of meshes tagged with the selection.
Synced ==
  /\ SceneBuilt
  /\ Highlighted = {k \in meshIdx[variant] :
                      selectedComp # Null /\ Scene(variant)[k].compId = selectedComp}

\* C26: while the viewer is mounted and frames keep being rendered, a state in
\* which the highlighted set is not the set of meshes tagged with the current
\* selection (as after any selection change) is followed by a frame after
\* which it is, unless the viewer is torn down first; and once it is, it stays
\* so for as long as the selection does not change within the same mount.
C26_SelectionShown ==
  /\ [](phase = "mounted" => <>(Synced \/ phase # "mounted"))
  /\ [][(Synced /\ selectedComp' = selectedComp /\ mounts' = mounts) => Synced']_vars

C26_Witness ==
  /\ phase = "mounted"
  /\ timeRef >= 2 * TimeStep
  /\ prevSel # Null
  /\ lastClick = selectedComp
  /\ selectedComp # prevSel
  /\ Synced

====
